---- MODULE Spec2Model ----
(***************************************************************************)
(* HomeClimate+ : the dashboard's mock device engine (Pages/HomePage.tsx)  *)
(* and the session store, route guards and account forms (router.tsx,      *)
(* Pages/LoginPage.tsx), as state machines.                                *)
(*                                                                         *)
(* Strings the code trims, lower-cases or measures are sequences of        *)
(* one-character strings, so that trim(), toLowerCase() and the e-mail     *)
(* regular expression are computed, not assumed.  Toast texts are plain    *)
(* ASCII renderings of the Spanish messages.                               *)
(***************************************************************************)
EXTENDS Integers, Sequences, FiniteSets, TLC

VARIABLES
    \* ---- HomePage component state (Pages/HomePage.tsx)
    device,          \* DeviceStatus
    lastSnapshot,    \* DeviceStatus | null : the single-slot undo buffer
    confirmOffOpen,  \* the power-off confirmation modal is open
    stats,           \* RealtimeStats
    intervals,       \* closures of the setInterval calls that have not been cleared
    escapeListeners, \* keydown listeners the Modal's effect has registered on window
    \* ---- state of the page component that is mounted
    toast,           \* the mounted page's toast (string | null)
    loading,         \* the mounted form's loading flag
    \* ---- localStorage
    users,           \* hc-users : the stored user list
    auth,            \* hc-auth  : the stored session record | null
    \* ---- RootLayout and router
    session,         \* RootLayout's in-memory copy of the session
    pathname,        \* the router's location, as useLocation() returns it
    navPending,      \* the location is being loaded (its beforeLoad has not run)
    view,            \* the route whose page is rendered
    effectDeps,      \* [session, pathname] of the redirect effect's last run | null
    storageEvents,   \* keys of the storage events queued for this tab
    timers,          \* closures of the pending setTimeout calls of the account forms
    \* ---- history variables (not program state)
    lastOp,          \* name of the handler that ran last
    lastArg,         \* its argument
    prev1,           \* device status just before the last accepted mutation
    prev2,           \* device status just before the accepted mutation before it
    post1,           \* device status just after the last accepted mutation
    runLen,          \* accepted mutations since the last undo that preceded them (capped)
    undos,           \* undo presses since the last accepted mutation (capped)
    lastTarget,      \* target of the last navigation that was requested
    loggedOut        \* onLogout ran and no login or registration succeeded since

dashVars  == <<device, lastSnapshot, confirmOffOpen, stats, intervals, escapeListeners>>
pageVars  == <<toast, loading>>
storeVars == <<users, auth>>
routeVars == <<session, pathname, navPending, view, effectDeps, storageEvents>>
timerVars == <<timers>>
dashHist  == <<prev1, prev2, post1, runLen, undos>>
authHist  == <<lastTarget, loggedOut>>
opHist    == <<lastOp, lastArg>>
vars == <<dashVars, pageVars, storeVars, routeVars, timerVars, opHist, dashHist, authHist>>

\* a value that may be absent (T | null) is the empty tuple or a one-element tuple
null == <<>>
Some(x) == <<x>>
The(o) == o[1]

\* the absent toast
NoToast == ""

Min(a, b) == IF a < b THEN a ELSE b
Max(a, b) == IF a > b THEN a ELSE b

(***************************************************************************)
(* Bounds of the model                                                     *)
(***************************************************************************)
\* how far outside the valid range the typed setpoints go
InputMargin == 1
\* how many setTimeout closures of the account forms may be pending at once
MaxPending == 1
\* the history counters runLen and undos stop counting here
HistCap == 2
\* ticks that would raise the consumption above this (in hundredths of a kWh)
\* are left out
MaxKwh == 85

(***************************************************************************)
(* router.tsx : the paths of the route tree                                *)
(***************************************************************************)
IndexPath    == "/"
LoginPath    == "/login"
RegisterPath == "/register"
UnknownPath  == "/foo"
\* no route: nothing has been rendered yet
NoPath       == "none"

Paths == {IndexPath, LoginPath, RegisterPath, UnknownPath}
PublicPaths == {LoginPath, RegisterPath}

(***************************************************************************)
(* Pages/HomePage.tsx : device status                                      *)
(***************************************************************************)
MinSetpoint == 16
MaxSetpoint == 30
InitialSetpoint == 23
EcoSetpoint == 24
ConfortSetpoint == 23

Modes == {"frio", "calor", "ventilacion"}

\* the values the number input delivers to changeSetpoint: both ends of the
\* valid range, the preset values, and InputMargin values beyond each end
SetpointInputs ==
    {MinSetpoint, MaxSetpoint, EcoSetpoint}
        \cup {MinSetpoint - k : k \in 1..InputMargin}
        \cup {MaxSetpoint + k : k \in 1..InputMargin}

DeviceStatus ==
    [connected : BOOLEAN, acOn : BOOLEAN, setpoint : Int, mode : Modes]

InitialDevice ==
    [connected |-> TRUE, acOn |-> TRUE, setpoint |-> InitialSetpoint, mode |-> "frio"]

ModeToast(m) ==
    IF m = "frio" THEN "Modo cambiado a Frio"
    ELSE IF m = "calor" THEN "Modo cambiado a Calor"
    ELSE "Modo cambiado a Ventilacion"

\* the three presets, recomputed from device.setpoint on every render
presets(d) ==
    { [id |-> "eco", toast |-> "Preset aplicado: Eco (24C)", setpoint |-> EcoSetpoint, mode |-> "frio"],
      [id |-> "confort", toast |-> "Preset aplicado: Confort (23C)", setpoint |-> ConfortSetpoint, mode |-> "frio"],
      [id |-> "ventila", toast |-> "Preset aplicado: Ventilar", setpoint |-> d.setpoint, mode |-> "ventilacion"] }

\* bookkeeping of the history variables for an accepted mutation and for the rest
NoteMutation(op, arg) ==
    /\ lastOp' = op
    /\ lastArg' = arg
    /\ prev1' = Some(device)
    /\ prev2' = IF undos = 0 /\ runLen > 0 THEN prev1 ELSE null
    /\ post1' = Some(device')
    /\ runLen' = IF undos = 0 THEN Min(runLen + 1, HistCap) ELSE 1
    /\ undos' = 0

NoteOther(op, arg) ==
    /\ lastOp' = op
    /\ lastArg' = arg
    /\ UNCHANGED dashHist

\* faulty variants of the range test: the upper limit forgotten, and off by one
SetpointRejectedNoUpper(v) == v < MinSetpoint
SetpointRejectedOffByOne(v) == v < MinSetpoint \/ v > MaxSetpoint + 1

\* the range test of changeSetpoint
SetpointRejected(v) == v < MinSetpoint \/ v > MaxSetpoint

\* faulty variant: the snapshot is taken from the status already switched on
SnapshotAfterPowerOn(d) == Some([d EXCEPT !.acOn = TRUE])

\* what a mutation stores in the undo buffer
Snapshot(d) == Some(d)

(***************************************************************************)
(* Pages/HomePage.tsx : realtime stats and the interval timer              *)
(* kwhNow and co2Now are counted in hundredths (0.8 kWh is 80, 320 g is    *)
(* 32000), so that the drifts 0.05 and -0.03 are the integers 5 and -3.    *)
(***************************************************************************)
InitialKwh == 80
InitialCo2 == 32000
DriftOn    == 5
DriftOff   == 3
Co2Factor  == 400

InitialStats ==
    [kwhNow |-> InitialKwh, co2Now |-> InitialCo2, maintenanceDue |-> FALSE]

\* device.acOn ? 0.05 : -0.03
drift(acOn) == IF acOn THEN DriftOn ELSE 0 - DriftOff

\* faulty variant: the consumption is not floored at zero
nextStatsNoFloor(s, acOn) ==
    LET k == s.kwhNow + drift(acOn)
    IN  [s EXCEPT !.kwhNow = k, !.co2Now = Max(0, k * Co2Factor)]

\* faulty variant: the emissions are computed from the previous consumption
nextStatsOldK(s, acOn) ==
    LET k == Max(0, s.kwhNow + drift(acOn))
    IN  [s EXCEPT !.kwhNow = k, !.co2Now = Max(0, s.kwhNow * Co2Factor)]

\* the updater passed to setStats by a tick of an interval whose closure holds acOn
nextStats(s, acOn) ==
    LET k   == Max(0, s.kwhNow + drift(acOn))
        co2 == Max(0, k * Co2Factor)
    IN  [s EXCEPT !.kwhNow = k, !.co2Now = co2]

\* the closure of the interval callback created in a render with device d
intervalOf(d) == [acOn |-> d.acOn]

\* the effect's cleanup: clearInterval(id) of the interval the effect created
clearInterval(ivs) == SubSeq(ivs, 1, Len(ivs) - 1)

\* faulty variant: the effect has no cleanup
statsEffectNoCleanup(old, new, ivs) ==
    IF new.acOn # old.acOn THEN Append(ivs, intervalOf(new)) ELSE ivs

\* faulty variant: the effect has an empty dependency list
statsEffectNoDeps(old, new, ivs) == ivs

\* the interval effect after a render: when device.acOn differs from the one of
\* the previous render, the cleanup runs and the effect creates a new interval
statsEffect(old, new, ivs) ==
    IF new.acOn # old.acOn
      THEN Append(clearInterval(ivs), intervalOf(new))
      ELSE ivs

\* faulty variant: the Modal's effect has no cleanup
modalEffectNoCleanup(wasOpen, open, ls) == IF open THEN ls + 1 ELSE ls

\* the Modal's effect after a render of HomePage (its dependency onClose is a
\* new function in every render): the cleanup removes the listener the last
\* run added, if it added one, and the effect adds one if the modal is open
modalEffect(wasOpen, open, ls) ==
    (IF wasOpen THEN ls - 1 ELSE ls) + (IF open THEN 1 ELSE 0)

\* faulty variant: the render after a handler starts the stats afresh
rerenderResetsStats ==
    /\ stats' = InitialStats
    /\ intervals' = statsEffect(device, device', intervals)
    /\ escapeListeners' = modalEffect(confirmOffOpen, confirmOffOpen', escapeListeners)

\* what a dashboard handler leaves to the render that follows it
rerender ==
    /\ stats' = stats
    /\ intervals' = statsEffect(device, device', intervals)
    /\ escapeListeners' = modalEffect(confirmOffOpen, confirmOffOpen', escapeListeners)

\* the callback of setInterval(..., 2000)
tick(i) ==
    /\ i \in 1..Len(intervals)
    /\ nextStats(stats, intervals[i].acOn).kwhNow <= MaxKwh
    /\ stats' = nextStats(stats, intervals[i].acOn)
    /\ NoteOther("tick", "")
    /\ escapeListeners' = modalEffect(confirmOffOpen, confirmOffOpen, escapeListeners)
    /\ UNCHANGED <<device, lastSnapshot, confirmOffOpen, intervals>>
    /\ UNCHANGED <<pageVars, storeVars, routeVars, timerVars, authHist>>

\* faulty variant: the power button switches off without asking
toggleACNoConfirm ==
    /\ lastSnapshot' = Snapshot(device)
    /\ device' = [device EXCEPT !.acOn = ~device.acOn]
    /\ toast' = IF device.acOn THEN "Aire acondicionado apagado"
                ELSE "Aire acondicionado encendido"
    /\ UNCHANGED confirmOffOpen
    /\ NoteMutation("toggleAC", IF device.acOn THEN "open" ELSE "on")
    /\ view = IndexPath
    /\ rerender
    /\ UNCHANGED <<loading, storeVars, routeVars, timerVars, authHist>>

toggleAC ==
    /\ IF device.acOn
         THEN /\ confirmOffOpen' = TRUE
              /\ UNCHANGED <<device, lastSnapshot, toast>>
              /\ NoteOther("toggleAC", "open")
         ELSE /\ lastSnapshot' = Snapshot(device)
              /\ device' = [device EXCEPT !.acOn = TRUE]
              /\ toast' = "Aire acondicionado encendido"
              /\ UNCHANGED confirmOffOpen
              /\ NoteMutation("toggleAC", "on")
    /\ view = IndexPath
    /\ rerender
    /\ UNCHANGED <<loading, storeVars, routeVars, timerVars, authHist>>

confirmTurnOff ==
    /\ confirmOffOpen
    /\ confirmOffOpen' = FALSE
    /\ lastSnapshot' = Snapshot(device)
    /\ device' = [device EXCEPT !.acOn = FALSE]
    /\ toast' = "Aire acondicionado apagado"
    /\ NoteMutation("confirmTurnOff", "off")
    /\ view = IndexPath
    /\ rerender
    /\ UNCHANGED <<loading, storeVars, routeVars, timerVars, authHist>>

\* Cancelar, Escape and a backdrop click all call onClose
closeModal(how) ==
    /\ confirmOffOpen
    /\ confirmOffOpen' = FALSE
    /\ NoteOther("closeModal", how)
    /\ UNCHANGED <<device, lastSnapshot, toast>>
    /\ view = IndexPath
    /\ rerender
    /\ UNCHANGED <<loading, storeVars, routeVars, timerVars, authHist>>

\* faulty variant: the mode change does not touch the power flag
changeModeKeepsPower(m) ==
    /\ lastSnapshot' = Snapshot(device)
    /\ device' = [device EXCEPT !.mode = m]
    /\ toast' = ModeToast(m)
    /\ NoteMutation("changeMode", m)
    /\ UNCHANGED confirmOffOpen
    /\ view = IndexPath
    /\ rerender
    /\ UNCHANGED <<loading, storeVars, routeVars, timerVars, authHist>>

changeMode(m) ==
    /\ lastSnapshot' = Snapshot(device)
    /\ device' = [device EXCEPT !.mode = m, !.acOn = TRUE]
    /\ toast' = ModeToast(m)
    /\ NoteMutation("changeMode", m)
    /\ UNCHANGED confirmOffOpen
    /\ view = IndexPath
    /\ rerender
    /\ UNCHANGED <<loading, storeVars, routeVars, timerVars, authHist>>

\* faulty variant: the snapshot is taken before the range test
changeSetpointSnapshotFirst(v) ==
    /\ lastSnapshot' = Snapshot(device)
    /\ IF SetpointRejected(v)
         THEN /\ toast' = "El setpoint debe estar entre 16C y 30C"
              /\ UNCHANGED device
              /\ NoteOther("changeSetpoint", v)
         ELSE /\ device' = [device EXCEPT !.setpoint = v, !.acOn = TRUE]
              /\ UNCHANGED toast
              /\ NoteMutation("changeSetpoint", v)
    /\ UNCHANGED confirmOffOpen
    /\ view = IndexPath
    /\ rerender
    /\ UNCHANGED <<loading, storeVars, routeVars, timerVars, authHist>>

changeSetpoint(v) ==
    /\ IF SetpointRejected(v)
         THEN /\ toast' = "El setpoint debe estar entre 16C y 30C"
              /\ UNCHANGED <<device, lastSnapshot>>
              /\ NoteOther("changeSetpoint", v)
         ELSE /\ lastSnapshot' = Snapshot(device)
              /\ device' = [device EXCEPT !.setpoint = v, !.acOn = TRUE]
              /\ UNCHANGED toast
              /\ NoteMutation("changeSetpoint", v)
    /\ UNCHANGED confirmOffOpen
    /\ view = IndexPath
    /\ rerender
    /\ UNCHANGED <<loading, storeVars, routeVars, timerVars, authHist>>

\* faulty variant: the preset's mode is not applied
applyPresetSetpointOnly(p) ==
    /\ lastSnapshot' = Snapshot(device)
    /\ device' = [device EXCEPT !.setpoint = p.setpoint, !.acOn = TRUE]
    /\ toast' = p.toast
    /\ NoteMutation("preset", p.id)
    /\ UNCHANGED confirmOffOpen
    /\ view = IndexPath
    /\ rerender
    /\ UNCHANGED <<loading, storeVars, routeVars, timerVars, authHist>>

applyPreset(p) ==
    /\ lastSnapshot' = Snapshot(device)
    /\ device' = [device EXCEPT !.setpoint = p.setpoint, !.mode = p.mode, !.acOn = TRUE]
    /\ toast' = p.toast
    /\ NoteMutation("preset", p.id)
    /\ UNCHANGED confirmOffOpen
    /\ view = IndexPath
    /\ rerender
    /\ UNCHANGED <<loading, storeVars, routeVars, timerVars, authHist>>

\* faulty variant: undo exchanges the status and the buffer, so that undoing twice
\* brings the undone mutation back
undoLastSwap ==
    /\ IF lastSnapshot = null
         THEN UNCHANGED <<device, lastSnapshot, toast>>
         ELSE /\ device' = The(lastSnapshot)
              /\ lastSnapshot' = Some(device)
              /\ toast' = "Se deshicieron los ultimos cambios"
    /\ lastOp' = "undoLast"
    /\ lastArg' = ""
    /\ undos' = Min(undos + 1, HistCap)
    /\ UNCHANGED <<prev1, prev2, post1, runLen>>
    /\ UNCHANGED confirmOffOpen
    /\ view = IndexPath
    /\ rerender
    /\ UNCHANGED <<loading, storeVars, routeVars, timerVars, authHist>>

undoLast ==
    /\ IF lastSnapshot = null
         THEN UNCHANGED <<device, lastSnapshot, toast>>
         ELSE /\ device' = The(lastSnapshot)
              /\ lastSnapshot' = null
              /\ toast' = "Se deshicieron los ultimos cambios"
    /\ lastOp' = "undoLast"
    /\ lastArg' = ""
    /\ undos' = Min(undos + 1, HistCap)
    /\ UNCHANGED <<prev1, prev2, post1, runLen>>
    /\ UNCHANGED confirmOffOpen
    /\ view = IndexPath
    /\ rerender
    /\ UNCHANGED <<loading, storeVars, routeVars, timerVars, authHist>>

\* the Escape key is pressed: every listener the Modal has registered calls
\* onClose, which is setConfirmOffOpen(false); without a listener nothing runs
keydownEscape ==
    /\ view = IndexPath
    /\ confirmOffOpen' = IF escapeListeners > 0 THEN FALSE ELSE confirmOffOpen
    /\ NoteOther("keydown", "Escape")
    /\ UNCHANGED <<device, lastSnapshot, toast>>
    /\ rerender
    /\ UNCHANGED <<loading, storeVars, routeVars, timerVars, authHist>>

\* faulty variant: the timeout fires and leaves the message where it is
dismissToastKeeps ==
    /\ toast # NoToast
    /\ toast' = toast
    /\ NoteOther("dismissToast", "")
    /\ UNCHANGED <<dashVars, loading, storeVars, routeVars, timerVars, authHist>>

\* the toast effect's timeout: setToast(null)
dismissToast ==
    /\ toast # NoToast
    /\ toast' = NoToast
    /\ NoteOther("dismissToast", "")
    /\ UNCHANGED <<dashVars, loading, storeVars, routeVars, timerVars, authHist>>

(***************************************************************************)
(* Strings: trim(), toLowerCase(), the e-mail regular expression           *)
(***************************************************************************)
Whitespace == {" "}

LowerChar(c) ==
    CASE c = "A" -> "a"
      [] c = "B" -> "b"
      [] c = "C" -> "c"
      [] c = "S" -> "s"
      [] OTHER -> c

toLowerCase(s) == [i \in 1..Len(s) |-> LowerChar(s[i])]

RECURSIVE trimStart(_)
trimStart(s) ==
    IF s # <<>> /\ Head(s) \in Whitespace THEN trimStart(Tail(s)) ELSE s

RECURSIVE trimEnd(_)
trimEnd(s) ==
    IF s # <<>> /\ s[Len(s)] \in Whitespace
      THEN trimEnd(SubSeq(s, 1, Len(s) - 1)) ELSE s

trim(s) == trimEnd(trimStart(s))

\* the key both forms compare e-mails by
normEmail(s) == toLowerCase(trim(s))

\* /^[^\s@]+@[^\s@]+\.[^\s@]+$/ : no whitespace, exactly one "@" with
\* something before it, and a "." with something on both sides after the "@"
emailOk(s) ==
    /\ \A i \in 1..Len(s) : s[i] \notin Whitespace
    /\ Cardinality({i \in 1..Len(s) : s[i] = "@"}) = 1
    /\ \E i \in 2..Len(s) :
         /\ s[i] = "@"
         /\ \E j \in (i + 2)..(Len(s) - 1) : s[j] = "."

(***************************************************************************)
(* localStorage: the values are JSON texts                                 *)
(***************************************************************************)
AUTH_KEY == "hc-auth"
USERS_KEY == "hc-users"

\* a stored text: JSON.stringify's output, from which JSON.parse gives the value back
JSONstringify(x) == [wellFormed |-> TRUE, empty |-> FALSE, value |-> x]

\* the empty string, and a non-empty text that is not JSON
EmptyText  == [wellFormed |-> FALSE, empty |-> TRUE, value |-> <<>>]
BrokenText == [wellFormed |-> FALSE, empty |-> FALSE, value |-> <<>>]

\* JSON.parse(text): the value, or the SyntaxError it throws
JSONparse(text) ==
    IF text.wellFormed THEN [threw |-> FALSE, value |-> text.value]
    ELSE [threw |-> TRUE, value |-> <<>>]

\* getItem's result used as a condition: null and "" are falsy
falsy(stored) == stored = null \/ The(stored).empty

\* what a read that lets the exception of JSON.parse escape ends with
Exception == Some([exception |-> TRUE])

\* faulty variant: readSession without its try/catch
readSessionFromNoCatch(stored) ==
    IF falsy(stored) THEN null
    ELSE IF JSONparse(The(stored)).threw THEN Exception
    ELSE Some(JSONparse(The(stored)).value)

\* readSession(): v ? JSON.parse(v) : null, and null when JSON.parse throws
readSessionFrom(stored) ==
    IF falsy(stored) THEN null
    ELSE IF JSONparse(The(stored)).threw THEN null
    ELSE Some(JSONparse(The(stored)).value)

readSession == readSessionFrom(auth)

\* loadUsers(): JSON.parse(getItem(USERS_KEY) || "[]"), and [] when it throws
loadUsersFrom(stored) ==
    IF falsy(stored) THEN <<>>
    ELSE IF JSONparse(The(stored)).threw THEN <<>>
    ELSE JSONparse(The(stored)).value

loadUsers == loadUsersFrom(users)

\* faulty variant: the whole user record is stored as the session
SessionOfWithPassword(u) ==
    [id |-> u.id, name |-> u.name, email |-> u.email, password |-> u.password]

\* faulty variant: the session is given an id of its own
SessionOfOwnId(u) == [id |-> u.id + 1, name |-> u.name, email |-> u.email]

\* the session record of a user: its public fields
SessionOf(u) == [id |-> u.id, name |-> u.name, email |-> u.email]

\* users.find(u => u.email.trim().toLowerCase() === email.trim().toLowerCase())
findUser(list, email) ==
    LET hits == {i \in 1..Len(list) : normEmail(list[i].email) = normEmail(email)}
    IN  IF hits = {} THEN null
        ELSE Some(list[CHOOSE i \in hits : \A j \in hits : i <= j])

\* users.some(u => u.email.trim().toLowerCase() === email.trim().toLowerCase())
emailExists(list, email) ==
    \E i \in 1..Len(list) : normEmail(list[i].email) = normEmail(email)

(***************************************************************************)
(* The values typed into the forms                                         *)
(***************************************************************************)
EmailA      == <<"a", "@", "b", ".", "c">>
EmailAUpper == <<"A", "@", "b", ".", "c">>
EmailAPad   == <<" ", "A", "@", "b", ".", "c", " ">>
EmailC      == <<"c", "@", "b", ".", "c">>

NameOk    == <<"A", "n", "a">>
NameShort == <<" ", "a", " ">>

Pass1     == <<"s", "e", "c", "r", "e", "t">>
Pass2     == <<"S", "e", "c", "r", "e", "t">>
PassShort == <<"s", "e", "c">>

LoginEmails       == {EmailA, EmailAPad, EmailC}
LoginPasswords    == {Pass1, Pass2}
RegisterNames     == {NameOk, NameShort}
RegisterEmails    == {EmailA, EmailAUpper, EmailAPad, EmailC}
RegisterPasswords == {Pass1, PassShort}

(***************************************************************************)
(* router.tsx : routes, guards, RootLayout                                 *)
(***************************************************************************)
\* beforeLoad of the route matching t: the redirect it throws, or NoPath
indexBeforeLoad(s)    == IF s = null THEN LoginPath ELSE NoPath
loginBeforeLoad(s)    == IF s # null THEN IndexPath ELSE NoPath
\* faulty variant: the register route without its guard
registerBeforeLoadNoGuard(s) == NoPath
registerBeforeLoad(s) == IF s # null THEN IndexPath ELSE NoPath

beforeLoad(t, s) ==
    CASE t = IndexPath    -> indexBeforeLoad(s)
      [] t = LoginPath    -> loginBeforeLoad(s)
      [] t = RegisterPath -> registerBeforeLoad(s)
      [] OTHER            -> NoPath

\* faulty variant: only the index path counts as protected
redirectToLoginIndexOnly(sess, path) == sess = null /\ path = IndexPath

\* the condition of RootLayout's redirect effect
redirectToLogin(sess, path) ==
    sess = null /\ path # LoginPath /\ path # RegisterPath

\* the dependencies [session, pathname] of the redirect effect, as rendered now
deps == Some([session |-> session, pathname |-> pathname])

\* the router's location is read through a synchronous store subscription:
\* React has rendered the layout, and run its effects, before the router's next
\* asynchronous step and before the next event handler or timer callback
effectsFlushed == view = NoPath \/ effectDeps = deps

\* closures created by the page that has just been unmounted no longer reach a
\* mounted component
orphaned(ts) == [i \in 1..Len(ts) |-> [ts[i] EXCEPT !.live = FALSE]]

removeAt(ts, i) == SubSeq(ts, 1, i - 1) \o SubSeq(ts, i + 1, Len(ts))

NoteNav(op, arg) == lastOp' = op /\ lastArg' = arg /\ UNCHANGED dashHist

\* the document is loaded at URL t: every in-memory state starts afresh
LoadUrl(t) ==
    /\ pathname' = t
    /\ navPending' = TRUE
    /\ view' = NoPath
    /\ session' = null
    /\ effectDeps' = null
    /\ storageEvents' = {}
    /\ timers' = <<>>
    /\ toast' = NoToast
    /\ loading' = FALSE
    /\ lastTarget' = t
    /\ intervals' = <<>>
    /\ escapeListeners' = 0
    /\ NoteNav("loadUrl", "")
    /\ UNCHANGED <<device, lastSnapshot, confirmOffOpen, stats, storeVars, loggedOut>>

\* a link, or the browser's back/forward button, asks for location t: the
\* router's location changes at once, the route is loaded afterwards
Navigate(t) ==
    /\ view # NoPath
    /\ effectsFlushed
    /\ pathname' = t
    /\ navPending' = TRUE
    /\ lastTarget' = t
    /\ NoteNav("navigate", "")
    /\ UNCHANGED <<dashVars, pageVars, storeVars, timerVars, loggedOut>>
    /\ UNCHANGED <<session, view, effectDeps, storageEvents>>

\* the router loads its location: the route's beforeLoad either redirects (the
\* location is replaced and loaded in turn) or lets the route render; a route
\* other than the rendered one unmounts the old page and mounts the new one,
\* and the first one mounts RootLayout, whose state starts from readSession()
ResolveNavigation ==
    /\ navPending
    /\ effectsFlushed
    /\ LET to == beforeLoad(pathname, readSession)
       IN  IF to # NoPath
             THEN /\ pathname' = to
                  /\ UNCHANGED <<navPending, view, session>>
                  /\ UNCHANGED <<dashVars, pageVars, timerVars>>
             ELSE /\ navPending' = FALSE
                  /\ view' = pathname
                  /\ session' = IF view = NoPath THEN readSession ELSE session
                  /\ UNCHANGED pathname
                  /\ IF view # pathname
                       THEN /\ toast' = NoToast
                            /\ loading' = FALSE
                            /\ timers' = orphaned(timers)
                            /\ device' = InitialDevice
                            /\ lastSnapshot' = null
                            /\ confirmOffOpen' = FALSE
                            /\ escapeListeners' =
                                 modalEffect(confirmOffOpen, FALSE, escapeListeners)
                            /\ stats' = InitialStats
                            /\ intervals' =
                                 IF pathname = IndexPath
                                   THEN Append(clearInterval(intervals),
                                               intervalOf(InitialDevice))
                                   ELSE clearInterval(intervals)
                       ELSE UNCHANGED <<dashVars, pageVars, timerVars>>
    /\ NoteNav("beforeLoad", "")
    /\ UNCHANGED <<storeVars, effectDeps, storageEvents, authHist>>

\* variant that also applies the second half of the guard's rule: a session on
\* /login or /register is sent to the index path
RedirectEffectBothWays ==
    /\ view # NoPath
    /\ effectDeps # deps
    /\ effectDeps' = deps
    /\ IF redirectToLogin(session, pathname)
         THEN pathname' = LoginPath /\ navPending' = TRUE
         ELSE IF session # null /\ pathname \in PublicPaths
         THEN pathname' = IndexPath /\ navPending' = TRUE
         ELSE UNCHANGED <<pathname, navPending>>
    /\ NoteNav("redirectEffect", "")
    /\ UNCHANGED <<dashVars, pageVars, storeVars, timerVars, authHist>>
    /\ UNCHANGED <<session, view, storageEvents>>

\* RootLayout's effect on [session, pathname]: it runs after the mount and after
\* every render in which a dependency differs from the ones of its last run
RedirectEffect ==
    /\ view # NoPath
    /\ effectDeps # deps
    /\ effectDeps' = deps
    /\ IF redirectToLogin(session, pathname)
         THEN pathname' = LoginPath /\ navPending' = TRUE
         ELSE UNCHANGED <<pathname, navPending>>
    /\ NoteNav("redirectEffect", "")
    /\ UNCHANGED <<dashVars, pageVars, storeVars, timerVars, authHist>>
    /\ UNCHANGED <<session, view, storageEvents>>

\* faulty variant: the stored record is not removed
onLogoutKeepsRecord ==
    /\ view # NoPath
    /\ session # null
    /\ effectsFlushed
    /\ auth' = auth
    /\ session' = null
    /\ pathname' = LoginPath
    /\ navPending' = TRUE
    /\ lastTarget' = LoginPath
    /\ loggedOut' = TRUE
    /\ NoteNav("onLogout", "")
    /\ UNCHANGED <<dashVars, pageVars, users, timerVars, view, effectDeps, storageEvents>>

onLogout ==
    /\ view # NoPath
    /\ session # null
    /\ effectsFlushed
    /\ auth' = null
    /\ session' = null
    /\ pathname' = LoginPath
    /\ navPending' = TRUE
    /\ lastTarget' = LoginPath
    /\ loggedOut' = TRUE
    /\ NoteNav("onLogout", "")
    /\ UNCHANGED <<dashVars, pageVars, users, timerVars, view, effectDeps, storageEvents>>

\* another tab of the application writes or removes the session record
OtherTabLogin(i) ==
    /\ i \in 1..Len(loadUsers)
    /\ auth # Some(JSONstringify(SessionOf(loadUsers[i])))
    /\ auth' = Some(JSONstringify(SessionOf(loadUsers[i])))
    /\ storageEvents' = storageEvents \cup {AUTH_KEY}
    /\ loggedOut' = FALSE
    /\ NoteNav("otherTabLogin", "")
    /\ UNCHANGED <<dashVars, pageVars, users, timerVars, lastTarget>>
    /\ UNCHANGED <<session, pathname, view, navPending, effectDeps>>

OtherTabLogout ==
    /\ auth # null
    /\ auth' = null
    /\ storageEvents' = storageEvents \cup {AUTH_KEY}
    /\ NoteNav("otherTabLogout", "")
    /\ UNCHANGED <<dashVars, pageVars, users, timerVars, authHist>>
    /\ UNCHANGED <<session, pathname, view, navPending, effectDeps>>

\* faulty variant: the listener re-reads the session whatever key the event names
onStorageAnyKey(key) ==
    /\ key \in storageEvents
    /\ effectsFlushed
    /\ storageEvents' = storageEvents \ {key}
    /\ session' = IF view # NoPath THEN readSession ELSE session
    /\ NoteNav("onStorage", "")
    /\ UNCHANGED <<dashVars, pageVars, storeVars, timerVars, authHist>>
    /\ UNCHANGED <<pathname, view, navPending, effectDeps>>

\* the "storage" listener of RootLayout
onStorage(key) ==
    /\ key \in storageEvents
    /\ effectsFlushed
    /\ storageEvents' = storageEvents \ {key}
    /\ session' = IF key = AUTH_KEY /\ view # NoPath THEN readSession ELSE session
    /\ NoteNav("onStorage", "")
    /\ UNCHANGED <<dashVars, pageVars, storeVars, timerVars, authHist>>
    /\ UNCHANGED <<pathname, view, navPending, effectDeps>>

(***************************************************************************)
(* Pages/LoginPage.tsx                                                     *)
(***************************************************************************)
\* faulty variant: the password is not compared
credentialsInvalidNoPassword(found, password) == found = null

\* the test of the delayed check: the credentials are refused
credentialsInvalid(found, password) ==
    found = null \/ The(found).password # password

\* saveAuth of LoginPage: write the record, then dispatch hc-auth-changed, which
\* RootLayout's listener answers with setSession(readSession())
saveAuthAndNotify(s) ==
    /\ auth' = Some(JSONstringify(s))
    /\ session' = readSessionFrom(auth')

LoginSubmit(email, password) ==
    /\ view = LoginPath
    /\ effectsFlushed
    /\ ~loading
    /\ Len(timers) < MaxPending
    /\ loading' = TRUE
    /\ timers' = Append(timers,
                    [kind |-> "loginCheck", email |-> email,
                     found |-> findUser(loadUsers, email),
                     password |-> password, live |-> TRUE])
    /\ NoteNav("loginSubmit", "")
    /\ UNCHANGED <<dashVars, toast, storeVars, routeVars, authHist>>

\* the callback of setTimeout(..., 500)
LoginCheck(i) ==
    /\ i \in 1..Len(timers)
    /\ timers[i].kind = "loginCheck"
    /\ effectsFlushed
    /\ LET t == timers[i]
       IN  /\ loading' = IF t.live THEN FALSE ELSE loading
           /\ IF credentialsInvalid(t.found, t.password)
                THEN /\ toast' = IF t.live THEN "Credenciales invalidas" ELSE toast
                     /\ timers' = removeAt(timers, i)
                     /\ NoteNav("loginCheck", <<t.email, t.password>>)
                     /\ UNCHANGED <<auth, session, loggedOut>>
                ELSE /\ saveAuthAndNotify(SessionOf(The(t.found)))
                     /\ toast' = IF t.live THEN "Bienvenido" ELSE toast
                     /\ timers' = [timers EXCEPT ![i] = [kind |-> "loginNav", live |-> t.live]]
                     /\ loggedOut' = FALSE
                     /\ NoteNav("loginCheck", <<t.email, t.password>>)
    /\ UNCHANGED <<dashVars, users, pathname, navPending, view, effectDeps, storageEvents, lastTarget>>

\* the callback of setTimeout(() => navigate({ to: "/" }), 200)
LoginNavigate(i) ==
    /\ i \in 1..Len(timers)
    /\ timers[i].kind = "loginNav"
    /\ effectsFlushed
    /\ timers' = removeAt(timers, i)
    /\ pathname' = IndexPath
    /\ navPending' = TRUE
    /\ lastTarget' = IndexPath
    /\ NoteNav("loginNavigate", "")
    /\ UNCHANGED <<dashVars, pageVars, storeVars, loggedOut>>
    /\ UNCHANGED <<session, view, effectDeps, storageEvents>>

(***************************************************************************)
(* RegisterPage (router.tsx)                                               *)
(***************************************************************************)
MinNameLength == 2
MinPasswordLength == 6

\* faulty variant: the password rules are tested before the name and the e-mail
errorsPasswordFirst(name, email, pass1, pass2, accept) ==
    (IF Len(pass1) < MinPasswordLength
          THEN <<"La contrasena debe tener al menos 6 caracteres.">> ELSE <<>>)
    \o (IF pass1 # pass2 THEN <<"Las contrasenas no coinciden.">> ELSE <<>>)
    \o (IF Len(trim(name)) < MinNameLength THEN <<"Nombre muy corto.">> ELSE <<>>)
    \o (IF ~emailOk(email) THEN <<"Correo invalido.">> ELSE <<>>)
    \o (IF ~accept THEN <<"Debes aceptar los terminos.">> ELSE <<>>)

\* the validation messages, in the order the code pushes them
errors(name, email, pass1, pass2, accept) ==
    (IF Len(trim(name)) < MinNameLength THEN <<"Nombre muy corto.">> ELSE <<>>)
    \o (IF ~emailOk(email) THEN <<"Correo invalido.">> ELSE <<>>)
    \o (IF Len(pass1) < MinPasswordLength
          THEN <<"La contrasena debe tener al menos 6 caracteres.">> ELSE <<>>)
    \o (IF pass1 # pass2 THEN <<"Las contrasenas no coinciden.">> ELSE <<>>)
    \o (IF ~accept THEN <<"Debes aceptar los terminos.">> ELSE <<>>)

\* faulty variant: the new id repeats the last record's id
nextIdNoIncrement(list) == IF list = <<>> THEN 1 ELSE list[Len(list)].id

\* (users.at(-1)?.id ?? 0) + 1
nextId(list) == (IF list = <<>> THEN 0 ELSE list[Len(list)].id) + 1

\* faulty variant: the e-mails are compared as typed
duplicateEmailExact(list, email) ==
    \E i \in 1..Len(list) : list[i].email = email

\* the test that refuses a registration for an e-mail already stored
duplicateEmail(list, email) == emailExists(list, email)

\* the record a registration appends (createdAt, which nothing reads, is left out)
newUser(list, name, email, pass1) ==
    [id |-> nextId(list), name |-> trim(name),
     email |-> toLowerCase(trim(email)), password |-> pass1]

RegisterSubmit(name, email, pass1, pass2, accept) ==
    /\ view = RegisterPath
    /\ effectsFlushed
    /\ ~loading
    /\ Len(timers) < MaxPending
    /\ LET errs == errors(name, email, pass1, pass2, accept)
           list == loadUsers
           user == newUser(list, name, email, pass1)
       IN  IF errs # <<>>
             THEN /\ toast' = errs[1]
                  /\ NoteNav("registerSubmit", email)
                  /\ UNCHANGED <<loading, storeVars, timers, loggedOut>>
           ELSE IF duplicateEmail(list, email)
             THEN /\ toast' = "Ya existe una cuenta con ese correo."
                  /\ NoteNav("registerSubmit", email)
                  /\ UNCHANGED <<loading, storeVars, timers, loggedOut>>
           ELSE   /\ users' = Some(JSONstringify(Append(list, user)))
                  /\ auth' = Some(JSONstringify(SessionOf(user)))
                  /\ toast' = "Cuenta creada con exito."
                  /\ loading' = TRUE
                  /\ timers' = Append(timers, [kind |-> "registerNav", live |-> TRUE])
                  /\ loggedOut' = FALSE
                  /\ NoteNav("registerSubmit", email)
    /\ UNCHANGED <<dashVars, routeVars, lastTarget>>

\* the callback of setTimeout(() => { setLoading(false); navigate({ to: "/" }) }, 500)
RegisterNavigate(i) ==
    /\ i \in 1..Len(timers)
    /\ timers[i].kind = "registerNav"
    /\ effectsFlushed
    /\ loading' = IF timers[i].live THEN FALSE ELSE loading
    /\ timers' = removeAt(timers, i)
    /\ pathname' = IndexPath
    /\ navPending' = TRUE
    /\ lastTarget' = IndexPath
    /\ NoteNav("registerNavigate", "")
    /\ UNCHANGED <<dashVars, toast, storeVars, loggedOut>>
    /\ UNCHANGED <<session, view, effectDeps, storageEvents>>

(***************************************************************************)
(* Specifications                                                          *)
(***************************************************************************)
HistInit ==
    /\ lastOp = "init" /\ lastArg = ""
    /\ prev1 = null /\ prev2 = null /\ post1 = null
    /\ runLen = 0 /\ undos = 0
    /\ loggedOut = FALSE

DashInit ==
    /\ device = InitialDevice
    /\ lastSnapshot = null
    /\ confirmOffOpen = FALSE
    /\ escapeListeners = 0
    /\ stats = InitialStats

\* a browser with empty localStorage opens the application at any URL
InitAuth ==
    /\ DashInit
    /\ intervals = <<>>
    /\ toast = NoToast /\ loading = FALSE
    /\ users = null /\ auth = null
    /\ session = null
    /\ pathname \in Paths
    /\ navPending = TRUE
    /\ view = NoPath
    /\ lastTarget = pathname
    /\ effectDeps = null
    /\ storageEvents = {}
    /\ timers = <<>>
    /\ HistInit

NextAuth ==
    \/ \E t \in Paths : LoadUrl(t)
    \/ \E t \in Paths : Navigate(t)
    \/ ResolveNavigation
    \/ RedirectEffect
    \/ onLogout
    \/ \E e \in LoginEmails, p \in LoginPasswords : LoginSubmit(e, p)
    \/ \E i \in 1..Len(timers) : LoginCheck(i)
    \/ \E i \in 1..Len(timers) : LoginNavigate(i)
    \/ \E n \in RegisterNames, e \in RegisterEmails,
          p1 \in RegisterPasswords, p2 \in RegisterPasswords, a \in BOOLEAN :
            RegisterSubmit(n, e, p1, p2, a)
    \/ \E i \in 1..Len(timers) : RegisterNavigate(i)
    \/ dismissToast

\* the application in one tab: accounts, session, guards
SpecAuth == InitAuth /\ [][NextAuth]_vars

\* the registration form alone: one tab in which the document is loaded, the
\* form is submitted with every combination of values, and the session ended
NextRegister ==
    \/ \E t \in Paths : LoadUrl(t)
    \/ ResolveNavigation
    \/ RedirectEffect
    \/ onLogout
    \/ \E n \in RegisterNames, e \in RegisterEmails,
          p1 \in RegisterPasswords, p2 \in RegisterPasswords, a \in BOOLEAN :
            RegisterSubmit(n, e, p1, p2, a)
    \/ \E i \in 1..Len(timers) : RegisterNavigate(i)
    \/ dismissToast

SpecRegister == InitAuth /\ [][NextRegister]_vars

\* what the runtime does without anybody acting: the router finishes a
\* navigation it has begun, React runs an effect whose dependencies have
\* changed, a timer that was set fires
RuntimeStep ==
    \/ ResolveNavigation
    \/ RedirectEffect
    \/ \E i \in 1..Len(timers) : LoginCheck(i)
    \/ \E i \in 1..Len(timers) : LoginNavigate(i)
    \/ \E i \in 1..Len(timers) : RegisterNavigate(i)

\* the same application, in which the runtime's own steps are not postponed
\* forever; the user's actions stay optional
SpecAuthFair == SpecAuth /\ WF_vars(RuntimeStep)

\* an account registered earlier
\* another tab registers an account: its saveUsers and saveAuth raise a storage
\* event for each of the two keys in this tab
OtherTabRegister(name, email, pass1) ==
    /\ ~duplicateEmail(loadUsers, email)
    /\ LET user == newUser(loadUsers, name, email, pass1)
       IN  /\ users' = Some(JSONstringify(Append(loadUsers, user)))
           /\ auth' = Some(JSONstringify(SessionOf(user)))
    /\ storageEvents' = storageEvents \cup {USERS_KEY, AUTH_KEY}
    /\ loggedOut' = FALSE
    /\ NoteNav("otherTabRegister", "")
    /\ UNCHANGED <<dashVars, pageVars, timerVars, lastTarget>>
    /\ UNCHANGED <<session, pathname, view, navPending, effectDeps>>

DemoUser == [id |-> 1, name |-> NameOk, email |-> EmailA, password |-> Pass1]

\* a browser that holds one account opens the application at any URL, signed in or not
InitTabs ==
    /\ DashInit
    /\ intervals = <<>>
    /\ toast = NoToast /\ loading = FALSE
    /\ users = Some(JSONstringify(<<DemoUser>>))
    /\ auth \in {null, Some(JSONstringify(SessionOf(DemoUser)))}
    /\ session = null
    /\ pathname \in Paths
    /\ navPending = TRUE
    /\ view = NoPath
    /\ lastTarget = pathname
    /\ effectDeps = null
    /\ storageEvents = {}
    /\ timers = <<>>
    /\ HistInit

NextTabs ==
    \/ \E t \in Paths : LoadUrl(t)
    \/ \E t \in Paths : Navigate(t)
    \/ ResolveNavigation
    \/ RedirectEffect
    \/ onLogout
    \/ \E i \in 1..Len(loadUsers) : OtherTabLogin(i)
    \/ OtherTabLogout
    \/ \E k \in storageEvents : onStorage(k)
    \/ \E p \in LoginPasswords : LoginSubmit(EmailA, p)
    \/ \E i \in 1..Len(timers) : LoginCheck(i)
    \/ \E i \in 1..Len(timers) : LoginNavigate(i)
    \/ dismissToast

\* the application in one tab while another tab signs in and out:
\* session store, notifications, guards
SpecTabs == InitTabs /\ [][NextTabs]_vars

\* what localStorage may hold under a key when the application starts: nothing,
\* the empty string, a text that is not JSON, or what the application wrote
StoredUsers ==
    {null, Some(EmptyText), Some(BrokenText), Some(JSONstringify(<<DemoUser>>))}
StoredSessions ==
    {null, Some(EmptyText), Some(BrokenText), Some(JSONstringify(SessionOf(DemoUser)))}

InitStore ==
    /\ DashInit
    /\ intervals = <<>>
    /\ toast = NoToast /\ loading = FALSE
    /\ users \in StoredUsers
    /\ auth \in StoredSessions
    /\ session = null
    /\ pathname \in Paths
    /\ navPending = TRUE
    /\ view = NoPath
    /\ lastTarget = pathname
    /\ effectDeps = null
    /\ storageEvents = {}
    /\ timers = <<>>
    /\ HistInit

NextStore ==
    \/ \E t \in Paths : LoadUrl(t)
    \/ \E t \in Paths : Navigate(t)
    \/ ResolveNavigation
    \/ RedirectEffect
    \/ onLogout
    \/ \E p \in LoginPasswords : LoginSubmit(EmailA, p)
    \/ \E i \in 1..Len(timers) : LoginCheck(i)
    \/ \E i \in 1..Len(timers) : LoginNavigate(i)
    \/ dismissToast

\* the application started over any content of the two localStorage keys
SpecStore == InitStore /\ [][NextStore]_vars

InitDash ==
    /\ DashInit
    /\ intervals = <<intervalOf(InitialDevice)>>
    /\ toast = NoToast /\ loading = FALSE
    /\ users = Some(JSONstringify(<<DemoUser>>))
    /\ auth = Some(JSONstringify(SessionOf(DemoUser)))
    /\ session = Some(SessionOf(DemoUser))
    /\ pathname = IndexPath
    /\ navPending = FALSE
    /\ view = IndexPath
    /\ lastTarget = IndexPath
    /\ effectDeps = deps
    /\ storageEvents = {}
    /\ timers = <<>>
    /\ HistInit

NextDash ==
    \/ toggleAC
    \/ confirmTurnOff
    \/ \E how \in {"cancel", "escape", "backdrop"} : closeModal(how)
    \/ \E m \in Modes : changeMode(m)
    \/ \E v \in SetpointInputs : changeSetpoint(v)
    \/ \E p \in presets(device) : applyPreset(p)
    \/ undoLast
    \/ dismissToast

SpecDash == InitDash /\ [][NextDash]_vars

\* the dashboard with its interval timer: one value of each input
NextStats ==
    \/ toggleAC
    \/ confirmTurnOff
    \/ closeModal("cancel")
    \/ changeMode("calor")
    \/ changeSetpoint(MaxSetpoint)
    \/ \E p \in {q \in presets(device) : q.id = "eco"} : applyPreset(p)
    \/ undoLast
    \/ \E i \in 1..Len(intervals) : tick(i)

SpecStats == InitDash /\ [][NextStats]_vars

\* the dashboard switched on and off while its timer runs, left for an unknown
\* path and entered again
NextMount ==
    \/ toggleAC
    \/ confirmTurnOff
    \/ \E i \in 1..Len(intervals) : tick(i)
    \/ \E t \in {IndexPath, UnknownPath} : Navigate(t)
    \/ ResolveNavigation
    \/ RedirectEffect

SpecMount == InitDash /\ [][NextMount]_vars

\* the same tab while the other tab may also register a second account
NextSync ==
    \/ NextTabs
    \/ OtherTabRegister(NameOk, EmailC, Pass1)

SpecSync == InitTabs /\ [][NextSync]_vars

\* the dashboard's modal: opened, confirmed, closed in each way, with the
\* timer re-rendering the page, the page left and entered again
NextModal ==
    \/ toggleAC
    \/ confirmTurnOff
    \/ \E how \in {"cancel", "backdrop"} : closeModal(how)
    \/ keydownEscape
    \/ \E i \in 1..Len(intervals) : tick(i)
    \/ \E t \in {IndexPath, UnknownPath} : Navigate(t)
    \/ ResolveNavigation
    \/ RedirectEffect

SpecModal == InitDash /\ [][NextModal]_vars

\* the failure paths of the three pages in one tab: a login that may fail, a
\* registration that may break a rule or repeat an e-mail, a setpoint out of
\* range; the timeout of the toast effect is not postponed forever
NextToast ==
    \/ \E t \in Paths : LoadUrl(t)
    \/ ResolveNavigation
    \/ RedirectEffect
    \/ onLogout
    \/ \E p \in LoginPasswords : LoginSubmit(EmailA, p)
    \/ \E i \in 1..Len(timers) : LoginCheck(i)
    \/ \E i \in 1..Len(timers) : LoginNavigate(i)
    \/ \E n \in RegisterNames, a \in BOOLEAN : RegisterSubmit(n, EmailA, Pass1, Pass1, a)
    \/ \E i \in 1..Len(timers) : RegisterNavigate(i)
    \/ \E v \in {MinSetpoint, MaxSetpoint + 1} : changeSetpoint(v)
    \/ dismissToast

SpecToast == InitAuth /\ [][NextToast]_vars /\ WF_vars(dismissToast)

(***************************************************************************)
(* Properties of the dashboard (SpecDash)                                  *)
(***************************************************************************)

\* C1: a changeSetpoint(v) call with v < 16 or v > 30 leaves the device status
\* (setpoint, mode, power flag) as it was, in whatever state it is made.
C1_RejectedSetpointKeepsStatus ==
    [][ (lastOp' = "changeSetpoint"
            /\ (lastArg' < MinSetpoint \/ lastArg' > MaxSetpoint))
        => device' = device ]_vars

\* a rejected value arrived after the status had been changed, and the status is
\* still the one the last accepted mutation produced
C1_Witness ==
    /\ lastOp = "changeSetpoint"
    /\ lastArg > MaxSetpoint
    /\ device # InitialDevice
    /\ post1 = Some(device)

\* C2: the setpoint is 23 at the start and stays within 16..30 whatever sequence
\* of power toggles, mode changes, setpoint changes, presets and undos is made.
C2_SetpointInRange ==
    /\ device.setpoint \in MinSetpoint..MaxSetpoint
    /\ lastOp = "init" => device.setpoint = InitialSetpoint

\* both ends of the range were set, and an undo brought the upper one back
C2_Witness ==
    /\ lastOp = "undoLast"
    /\ device.setpoint = MaxSetpoint
    /\ post1 # null
    /\ The(post1).setpoint = MinSetpoint

\* C3: the first undo after an accepted mutation puts the device status back to
\* what it was just before that mutation; an undo that follows an undo, with no
\* mutation in between, changes neither the status nor the undo buffer.
C3_UndoRestoresOnce ==
    [][ lastOp' = "undoLast" =>
          /\ (undos = 0 /\ runLen > 0) => device' = The(prev1)
          /\ undos > 0 => (device' = device /\ lastSnapshot' = lastSnapshot) ]_vars

\* a mutation that changed the status was undone, and undo was pressed again
C3_Witness ==
    /\ lastOp = "undoLast"
    /\ undos >= 2
    /\ runLen = 1
    /\ post1 # prev1
    /\ device = The(prev1)

\* C4: the buffer is one slot that every accepted mutation overwrites: right
\* after a mutation it holds the status from just before that mutation, and
\* after mutations m1, m2 and any number of undos the status is the one m1
\* produced, never again the one from before m1.
C4_SingleSlot ==
    /\ (runLen >= 1 /\ undos = 0) => lastSnapshot = prev1
    /\ (runLen >= 2 /\ undos >= 1) =>
          /\ device = The(prev1)
          /\ prev2 # prev1 => Some(device) # prev2

\* two status-changing mutations in a row, then more than one undo
C4_Witness ==
    /\ runLen >= 2
    /\ undos >= 2
    /\ prev2 # null
    /\ prev2 # prev1
    /\ post1 # prev1
    /\ device = The(prev1)

\* C20: a preset sets its setpoint and its mode in the one step that also takes
\* the undo snapshot, and the undo that follows a preset brings back both the
\* setpoint and the mode from before it.
C20_PresetAtomic ==
    /\ [][ lastOp' = "preset" =>
             /\ device'.setpoint =
                   (IF lastArg' = "eco" THEN EcoSetpoint
                    ELSE IF lastArg' = "confort" THEN ConfortSetpoint
                    ELSE device.setpoint)
             /\ device'.mode = (IF lastArg' = "ventila" THEN "ventilacion" ELSE "frio")
             /\ lastSnapshot' = Some(device) ]_vars
    /\ [][ (lastOp = "preset" /\ lastOp' = "undoLast") =>
             /\ device'.setpoint = The(prev1).setpoint
             /\ device'.mode = The(prev1).mode ]_vars

\* the Eco preset has just replaced both another setpoint and another mode
C20_Witness ==
    /\ lastOp = "preset"
    /\ lastArg = "eco"
    /\ The(prev1).setpoint # EcoSetpoint
    /\ The(prev1).mode # "frio"
    /\ device.setpoint = EcoSetpoint
    /\ device.mode = "frio"

(***************************************************************************)
(* Properties of the localStorage reads (SpecStore)                        *)
(***************************************************************************)

\* the key holds nothing, or a text JSON.parse rejects
AbsentOrUnparseable(stored) ==
    stored = null \/ The(stored) \in {EmptyText, BrokenText}

\* C17: whatever the two keys hold, neither read ends with an exception; the
\* session read is null and the user list read is empty when the key is absent
\* or holds a text that is not parseable JSON.
C17_ReadsNeverThrow ==
    /\ readSession # Exception
    /\ loadUsers # Exception
    /\ AbsentOrUnparseable(auth) => readSession = null
    /\ AbsentOrUnparseable(users) => loadUsers = <<>>

\* both keys hold texts that are not JSON; the guard has read the session and
\* sent "/" to /login, and a login has read the user list and found nobody
C17_Witness ==
    /\ auth = Some(BrokenText)
    /\ users = Some(BrokenText)
    /\ view = LoginPath
    /\ lastOp = "loginCheck"
    /\ toast = "Credenciales invalidas"

(***************************************************************************)
(* Properties of the realtime stats (SpecStats, SpecMount)                 *)
(***************************************************************************)

\* C13: a tick raises the consumption when the power flag is on at the time of
\* the tick, and lowers it (or leaves it at zero) when the flag is off,
\* whatever changed the flag last.
C13_TickFollowsPowerFlag ==
    [][ lastOp' = "tick" =>
          /\ device.acOn => stats'.kwhNow > stats.kwhNow
          /\ ~device.acOn => (stats'.kwhNow < stats.kwhNow \/ stats'.kwhNow = 0) ]_vars

\* power off, then power on, then the first tick: the consumption has gone up
C13_Witness ==
    /\ lastOp = "tick"
    /\ device.acOn
    /\ prev1 # null /\ ~The(prev1).acOn
    /\ prev2 # null /\ The(prev2).acOn
    /\ stats.kwhNow = InitialKwh + DriftOn

\* C14: while the dashboard is rendered exactly one interval is active, while it
\* is not rendered none is, and the stats do not change while it is not rendered.
C14_OneIntervalWhileMounted ==
    /\ [](view = IndexPath => Len(intervals) = 1)
    /\ [](view # IndexPath => Len(intervals) = 0)
    /\ [][ lastOp' = "tick" => view = IndexPath ]_vars
    /\ [][ (view # IndexPath /\ view' # IndexPath) => stats' = stats ]_vars

\* the power flag was changed and ticks ran, then the dashboard was left
C14_Witness ==
    /\ view = UnknownPath
    /\ ~navPending
    /\ prev1 # null
    /\ intervals = <<>>

\* C15: a tick replaces the consumption k by max(0, k + 0.05) with the power on
\* and by max(0, k - 0.03) with the power off (in hundredths: 5 and 3); the
\* consumption starts at 0.8 and is never negative.
C15_TickDriftFloored ==
    /\ [](stats.kwhNow >= 0)
    /\ [](lastOp = "init" => stats.kwhNow = InitialKwh)
    /\ [][ lastOp' = "tick" =>
             stats'.kwhNow = IF device.acOn
                               THEN Max(0, stats.kwhNow + DriftOn)
                               ELSE Max(0, stats.kwhNow - DriftOff) ]_vars

\* with the power off the ticks have brought the consumption down to the floor
C15_Witness ==
    /\ lastOp = "tick"
    /\ ~device.acOn
    /\ stats.kwhNow = 0

\* C16: the emissions are 400 times the consumption in every state.
C16_EmissionsFollowConsumption ==
    stats.co2Now = Co2Factor * stats.kwhNow

\* ticks and device mutations have happened and the emissions moved with the
\* consumption
C16_Witness ==
    /\ lastOp = "tick"
    /\ prev1 # null
    /\ stats.kwhNow > InitialKwh
    /\ stats.co2Now > InitialCo2

(***************************************************************************)
(* Properties of the accounts, the session store and the guards            *)
(***************************************************************************)

\* nothing is in flight in the router or the layout: the location is loaded
\* and rendered, the redirect effect has run on the rendered values, no
\* storage event is queued
Settled ==
    /\ view # NoPath
    /\ ~navPending
    /\ effectDeps = deps
    /\ storageEvents = {}

\* e-mail a equals e-mail b but for letter case and surrounding whitespace
SameEmail(a, b) == toLowerCase(trim(a)) = toLowerCase(trim(b))

\* C5: a registration for an e-mail that equals a stored user's e-mail, letter
\* case and surrounding whitespace ignored, changes neither the stored user list
\* nor the stored session; so no two stored users ever have the same e-mail
\* ignoring case.
C5_DuplicateEmailRejected ==
    /\ [][ (lastOp' = "registerSubmit"
              /\ \E i \in 1..Len(loadUsers) : SameEmail(loadUsers[i].email, lastArg'))
           => (users' = users /\ auth' = auth) ]_vars
    /\ [](\A i, j \in 1..Len(loadUsers) :
             i # j => toLowerCase(loadUsers[i].email) # toLowerCase(loadUsers[j].email))

\* with two accounts stored, a registration for the first one's e-mail in upper
\* case has just been refused
C5_Witness ==
    /\ lastOp = "registerSubmit"
    /\ lastArg = EmailAUpper
    /\ Len(loadUsers) = 2
    /\ \E i \in 1..Len(loadUsers) : loadUsers[i].email = EmailA
    /\ toast = "Ya existe una cuenta con ese correo."

\* the stored users do not hold a record with this e-mail (case and surrounding
\* whitespace ignored) and exactly this password
NoSuchCredentials(list, email, password) ==
    \/ \A i \in 1..Len(list) : ~SameEmail(list[i].email, email)
    \/ \E i \in 1..Len(list) :
         SameEmail(list[i].email, email) /\ list[i].password # password

\* C6: a login whose e-mail matches no stored user, or whose password differs
\* from the matched user's, writes no session record: neither the submission
\* nor its delayed check changes the stored session.
C6_FailedLoginWritesNoSession ==
    /\ [][ lastOp' = "loginSubmit" => auth' = auth ]_vars
    /\ [][ (lastOp' = "loginCheck"
              /\ NoSuchCredentials(loadUsers, lastArg'[1], lastArg'[2]))
           => auth' = auth ]_vars

\* the delayed check of a login with a stored e-mail and another password has
\* run, and no session is stored
C6_Witness ==
    /\ lastOp = "loginCheck"
    /\ lastArg = <<EmailAPad, Pass2>>
    /\ \E i \in 1..Len(loadUsers) : loadUsers[i].email = EmailA
    /\ auth = null
    /\ toast = "Credenciales invalidas"

\* C7: onLogout removes the stored session record; from then on, until a login
\* or a registration succeeds, the dashboard is never rendered and every
\* navigation to a path other than /login and /register comes to rest at /login.
C7_LogoutThenLogin ==
    /\ [][ lastOp' = "onLogout" => auth' = null ]_vars
    /\ [][ (loggedOut /\ view' # view) => view' # IndexPath ]_vars
    /\ []((loggedOut /\ Settled /\ lastTarget \notin PublicPaths)
             => view = LoginPath)

\* after a logout the index path was asked for again and the application came
\* to rest at /login
C7_Witness ==
    /\ loggedOut
    /\ Settled
    /\ lastTarget = IndexPath
    /\ view = LoginPath

\* C8: with no session record stored, the application comes to rest only at
\* /login or /register, and at /login when the path asked for was any other
\* one (the index path, an unknown path); the dashboard is rendered only when a
\* session record is stored.
C8_NoSessionEndsAtLogin ==
    /\ []((Settled /\ auth = null) =>
             /\ view \in PublicPaths
             /\ lastTarget \notin PublicPaths => view = LoginPath)
    /\ [][ (view' # view /\ view' = IndexPath) => auth # null ]_vars

\* an unknown path was asked for without a session, its page was rendered, and
\* the application came to rest at /login
C8_Witness ==
    /\ Settled
    /\ auth = null
    /\ lastTarget = UnknownPath
    /\ effectDeps = Some([session |-> null, pathname |-> LoginPath])
    /\ view = LoginPath

\* /register is reached, and stays, without a session
C8_RegisterReachable ==
    /\ Settled
    /\ auth = null
    /\ lastTarget = RegisterPath
    /\ view = RegisterPath

\* C9: while a session record is stored, loading /login or /register redirects
\* to "/" and no step makes /login or /register the rendered route.
C9_SessionLeavesLoginAndRegister ==
    /\ [][ (lastOp' = "beforeLoad" /\ pathname \in PublicPaths /\ auth # null)
           => (pathname' = IndexPath /\ navPending' /\ view' = view) ]_vars
    /\ [][ (view' # view /\ view' \in PublicPaths) => auth = null ]_vars

\* on the dashboard with a session, /register was asked for and the guard has
\* just answered with the redirect to "/"
C9_Witness ==
    /\ lastOp = "beforeLoad"
    /\ lastTarget = RegisterPath
    /\ pathname = IndexPath
    /\ navPending
    /\ view = IndexPath
    /\ auth # null

\* C10, as the specification states it: once a notification has given the layout a session while the
\* path is /login or /register, the application does not stay there: at rest,
\* with nothing pending, a layout that knows of the stored session is not on
\* /login or /register.
C10_NotificationRedirectsToIndex ==
    (Settled /\ timers = <<>> /\ session # null /\ auth # null)
        => view \notin PublicPaths

\* C10 as the code has it: a notification makes the layout re-read the store
\* and starts no navigation by itself; the effect that follows it starts a
\* navigation only to /login, and only when the layout's copy is null on a
\* path other than /login and /register.
C10_NotificationRedirectsOnlyToLogin ==
    /\ [][ (lastOp' = "onStorage" \/ (lastOp' = "loginCheck" /\ auth' # auth))
           => (pathname' = pathname /\ navPending' = navPending /\ view' = view
                 /\ (view # NoPath => session' = readSessionFrom(auth'))) ]_vars
    /\ [][ lastOp' = "redirectEffect"
           => IF session = null /\ pathname \notin PublicPaths
                THEN pathname' = LoginPath /\ navPending'
                ELSE pathname' = pathname /\ navPending' = navPending ]_vars

\* the storage event of another tab's login has been handled on /login, the
\* effect has run, and the path is still /login
C10_Witness ==
    /\ lastOp = "redirectEffect"
    /\ Settled
    /\ timers = <<>>
    /\ session # null
    /\ session = readSession
    /\ view = LoginPath

\* C11: every successful login and every successful registration writes the
\* session record and then fires hc-auth-changed, so that the layout's
\* listener, re-reading the store, holds the new record when the step ends.
C11_WriteThenNotify ==
    [][ (lastOp' \in {"loginCheck", "registerSubmit"} /\ auth' # auth)
        => session' = readSessionFrom(auth') ]_vars

\* a login has just written its session, a registration has just created its
\* account, or a logout has just run
C12_Completed ==
    \/ lastOp = "onLogout"
    \/ lastOp = "loginCheck" /\ \E i \in 1..Len(timers) : timers[i].kind = "loginNav"
    \/ lastOp = "registerSubmit" /\ toast = "Cuenta creada con exito."

\* C12: after any completed login, registration or logout, the layout's
\* in-memory session eventually equals the stored session record (a document
\* that is reloaded has no layout until it mounts, and mounts from the store).
C12_LayoutFollowsStore ==
    C12_Completed ~> (view = NoPath \/ session = readSession)

\* the message of the first validation rule the typed values break, in the
\* order name, e-mail format, password length, confirmation, terms; NoToast
\* when they break none
FirstFailingRule(name, email, pass1, pass2, accept) ==
    IF Len(trim(name)) < 2 THEN "Nombre muy corto."
    ELSE IF ~emailOk(email) THEN "Correo invalido."
    ELSE IF Len(pass1) < 6 THEN "La contrasena debe tener al menos 6 caracteres."
    ELSE IF pass1 # pass2 THEN "Las contrasenas no coinciden."
    ELSE IF ~accept THEN "Debes aceptar los terminos."
    ELSE NoToast

\* C18: a registration whose values break a validation rule appends no user,
\* writes no session and starts no navigation (nor a timer that would); all it
\* does is set the notification to the message of the first rule broken.
C18_InvalidRegistrationOnlyToasts ==
    [][ lastOp' = "registerSubmit"
        => \A n \in RegisterNames, p1 \in RegisterPasswords,
              p2 \in RegisterPasswords, a \in BOOLEAN :
             (FirstFailingRule(n, lastArg', p1, p2, a) # NoToast
                /\ RegisterSubmit(n, lastArg', p1, p2, a))
             => /\ users' = users /\ auth' = auth /\ session' = session
                /\ pathname' = pathname /\ navPending' = navPending /\ view' = view
                /\ timers' = timers /\ loading' = loading
                /\ toast' = FirstFailingRule(n, lastArg', p1, p2, a) ]_vars

\* on /register with nothing stored, a submission breaking a rule (the one
\* reported is the password length) has just been refused
C18_Witness ==
    /\ lastOp = "registerSubmit"
    /\ lastArg = EmailA
    /\ toast = "La contrasena debe tener al menos 6 caracteres."
    /\ users = null /\ auth = null
    /\ view = RegisterPath /\ pathname = RegisterPath
    /\ timers = <<>>

\* the stored text of a session made of u's id, name and e-mail and nothing else
PublicFieldsOf(u) ==
    Some(JSONstringify([id |-> u.id, name |-> u.name, email |-> u.email]))

\* this step ran the callback of timer i: the timer is gone, or has been
\* replaced by the navigation timer its callback sets
TimerFired(i) ==
    \/ timers' = removeAt(timers, i)
    \/ timers' = [timers EXCEPT ![i] = [kind |-> "loginNav", live |-> timers[i].live]]

\* C19: a login whose e-mail equals a stored user's e-mail, case and
\* surrounding whitespace ignored, and whose password equals that user's
\* password writes a session of exactly that user's id, name and e-mail; a
\* successful registration appends one record and writes a session of that
\* record's id, name and e-mail; a stored session never has a password field.
\* The login form looks the user up when it is submitted and writes the
\* session when its timer fires.
C19_SessionIsPublicFields ==
    /\ [][ lastOp' = "loginSubmit"
           => LET t == timers'[Len(timers')]
              IN  \A i \in 1..Len(loadUsers) :
                    SameEmail(loadUsers[i].email, t.email)
                    => t.found = Some(loadUsers[i]) ]_vars
    /\ [][ lastOp' = "loginCheck"
           => \E i \in 1..Len(timers) :
                /\ timers[i].kind = "loginCheck"
                /\ TimerFired(i)
                /\ (timers[i].found # null
                      /\ The(timers[i].found).password = timers[i].password)
                   => auth' = PublicFieldsOf(The(timers[i].found)) ]_vars
    /\ [][ (lastOp' = "registerSubmit" /\ users' # users)
           => LET list == loadUsersFrom(users')
              IN  /\ Len(list) = Len(loadUsers) + 1
                  /\ SubSeq(list, 1, Len(loadUsers)) = loadUsers
                  /\ auth' = PublicFieldsOf(list[Len(list)]) ]_vars
    /\ [](readSession # null => DOMAIN The(readSession) = {"id", "name", "email"})

\* with two accounts stored, a login typed with padding and an upper-case
\* letter for the second account has just written that account's session
C19_Witness ==
    /\ lastOp = "loginCheck"
    /\ lastArg = <<EmailAPad, Pass1>>
    /\ Len(loadUsers) = 2
    /\ loadUsers[2].email = EmailA
    /\ auth = Some(JSONstringify([id |-> 2, name |-> NameOk, email |-> EmailA]))
    /\ session = readSession

\* C22: starting from an empty user list, the stored ids are 1, 2, ..., n in
\* list order, hence pairwise distinct; each registration gives its record the
\* last record's id plus one, or 1 when the list is empty.
C22_IdsCountUp ==
    /\ [](\A i \in 1..Len(loadUsers) : loadUsers[i].id = i)
    /\ [](\A i, j \in 1..Len(loadUsers) : i # j => loadUsers[i].id # loadUsers[j].id)
    /\ [][ (lastOp' = "registerSubmit" /\ users' # users)
           => LET list == loadUsersFrom(users')
              IN  list[Len(list)].id =
                    (IF loadUsers = <<>> THEN 1 ELSE loadUsers[Len(loadUsers)].id + 1) ]_vars

\* a second account has just been registered and got the id 2
C22_Witness ==
    /\ lastOp = "registerSubmit"
    /\ toast = "Cuenta creada con exito."
    /\ Len(loadUsers) = 2
    /\ loadUsers[1].id = 1 /\ loadUsers[2].id = 2

(***************************************************************************)
(* Further properties of the dashboard                                     *)
(***************************************************************************)

\* the handlers that change, or may change, the device status or the buffer
DeviceOps ==
    {"toggleAC", "confirmTurnOff", "closeModal", "changeMode", "changeSetpoint",
     "preset", "undoLast"}

\* C25: a timer tick changes only the consumption and the emissions: device
\* status, undo buffer (and the maintenance flag) stay as they are; a device
\* mutation or an undo leaves consumption and emissions as they are.
C25_StatusAndStatsIndependent ==
    /\ [][ lastOp' = "tick"
           => /\ device' = device
              /\ lastSnapshot' = lastSnapshot
              /\ stats'.maintenanceDue = stats.maintenanceDue ]_vars
    /\ [][ lastOp' \in DeviceOps
           => (stats'.kwhNow = stats.kwhNow /\ stats'.co2Now = stats.co2Now) ]_vars

\* a tick has just changed the consumption while the status had been changed
\* and the buffer filled
C25_Witness ==
    /\ lastOp = "tick"
    /\ stats.kwhNow # InitialKwh
    /\ device # InitialDevice
    /\ lastSnapshot # null

\* C26: whenever a session record is stored, the stored user list holds a
\* record with the same id and the same e-mail, after any sequence of
\* registrations, logins and logouts.
C26_SessionHasItsUser ==
    readSession # null
    => \E i \in 1..Len(loadUsers) :
         /\ loadUsers[i].id = The(readSession).id
         /\ loadUsers[i].email = The(readSession).email

\* with two accounts stored, a login has just written the session of the first
C26_Witness ==
    /\ lastOp = "loginCheck"
    /\ Len(loadUsers) = 2
    /\ readSession # null
    /\ The(readSession).id = 1
    /\ The(readSession).email = loadUsers[1].email

\* a setpoint outside 16..30
OutOfRange(v) == v < 16 \/ v > 30

\* C27: a rejected setpoint change leaves the undo buffer as it is (empty, if
\* it was empty); the undo pressed right after it restores the status from
\* before the last accepted mutation, or does nothing if the buffer is empty.
C27_RejectionKeepsUndoBuffer ==
    /\ [][ (lastOp' = "changeSetpoint" /\ OutOfRange(lastArg'))
           => lastSnapshot' = lastSnapshot ]_vars
    /\ [][ (lastOp = "changeSetpoint" /\ OutOfRange(lastArg) /\ lastOp' = "undoLast")
           => IF undos = 0 /\ runLen > 0
                THEN device' = The(prev1)
                ELSE device' = device /\ lastSnapshot' = null ]_vars

\* a value above the range has just been rejected while the buffer held the
\* status from before the last accepted mutation, which had changed the status
C27_Witness ==
    /\ lastOp = "changeSetpoint"
    /\ lastArg > 30
    /\ lastSnapshot # null
    /\ lastSnapshot = prev1
    /\ Some(device) # lastSnapshot

\* C28: the power button pressed while power is on only opens the confirmation
\* modal; closing the modal by Cancel, Escape or a click on the backdrop
\* changes neither device status nor undo buffer; confirming switches power off
\* and records the prior status; the button pressed while power is off switches
\* power on at once and records the prior status.
C28_PowerOffAsksFirst ==
    /\ [][ (lastOp' = "toggleAC" /\ device.acOn)
           => /\ device' = device
              /\ lastSnapshot' = lastSnapshot
              /\ confirmOffOpen' ]_vars
    /\ [][ lastOp' = "closeModal"
           => /\ device' = device
              /\ lastSnapshot' = lastSnapshot
              /\ ~confirmOffOpen' ]_vars
    /\ [][ lastOp' = "confirmTurnOff"
           => /\ confirmOffOpen
              /\ device' = [device EXCEPT !.acOn = FALSE]
              /\ lastSnapshot' = Some(device) ]_vars
    /\ [][ (lastOp' = "toggleAC" /\ ~device.acOn)
           => /\ device' = [device EXCEPT !.acOn = TRUE]
              /\ lastSnapshot' = Some(device)
              /\ confirmOffOpen' = confirmOffOpen ]_vars

\* the modal, opened by the power button on a changed status with a filled
\* buffer, has just been closed by a click on the backdrop
C28_Witness ==
    /\ lastOp = "closeModal"
    /\ lastArg = "backdrop"
    /\ device.acOn
    /\ device # InitialDevice
    /\ lastSnapshot # null
    /\ ~confirmOffOpen

\* this step is an accepted mode change, setpoint change or preset application
AcceptedSetting ==
    \/ lastOp' \in {"changeMode", "preset"}
    \/ lastOp' = "changeSetpoint" /\ ~OutOfRange(lastArg')

\* this step switches power off in one of the two ways that may: a confirmed
\* power-off, or an undo restoring a snapshot taken while power was off
SwitchedOffProperly ==
    \/ lastOp' = "confirmTurnOff"
    \/ lastOp' = "undoLast" /\ lastSnapshot # null /\ ~The(lastSnapshot).acOn

HandledKey == CHOOSE k \in storageEvents : k \notin storageEvents'

\* C24: a storage event for the session key makes the mounted layout re-read
\* the store; when the record has been removed and the layout shows a protected
\* path, the redirect effect is due and sends the location to /login; a logout
\* in this tab, whose notification arrives after the removal, leaves the copy
\* null and the location at /login; a storage event for any other key changes
\* neither the layout's copy nor the path.
C24_RemovalSendsToLogin ==
    /\ [][ (lastOp' = "onStorage" /\ HandledKey = AUTH_KEY /\ view # NoPath)
           => /\ session' = readSessionFrom(auth)
              /\ (session # null /\ session' = null /\ pathname \notin PublicPaths)
                 => effectDeps' # Some([session |-> session', pathname |-> pathname']) ]_vars
    /\ [][ (lastOp' = "redirectEffect" /\ session = null /\ auth = null
              /\ pathname \notin PublicPaths)
           => (pathname' = LoginPath /\ navPending') ]_vars
    /\ [][ lastOp' = "onLogout"
           => (auth' = null /\ session' = null /\ pathname' = LoginPath) ]_vars
    /\ [][ (lastOp' = "onStorage" /\ HandledKey # AUTH_KEY)
           => /\ session' = session
              /\ pathname' = pathname /\ navPending' = navPending
              /\ view' = view ]_vars

\* the other tab removed the session while this tab showed the index path; the
\* storage event has been handled and the effect has sent the location to /login
C24_Witness ==
    /\ lastOp = "redirectEffect"
    /\ ~loggedOut
    /\ auth = null /\ session = null
    /\ view = IndexPath
    /\ pathname = LoginPath
    /\ navPending

\* C23: the Modal's Escape listener is registered exactly while the modal of
\* the mounted dashboard is open (one listener, none otherwise: it is removed
\* when the modal closes and when the page unmounts), and an Escape key press
\* while the modal is closed changes nothing of the dashboard state.
C23_EscapeListenerWhileOpen ==
    /\ [](escapeListeners = IF view = IndexPath /\ confirmOffOpen THEN 1 ELSE 0)
    /\ [][ (lastOp' = "keydown" /\ ~confirmOffOpen) => UNCHANGED dashVars ]_vars
    /\ [][ (lastOp' = "keydown" /\ confirmOffOpen)
           => (~confirmOffOpen' /\ device' = device /\ lastSnapshot' = lastSnapshot) ]_vars

\* Escape has just been pressed with the modal closed, after the modal had been
\* opened and confirmed once
C23_Witness ==
    /\ lastOp = "keydown"
    /\ ~confirmOffOpen
    /\ escapeListeners = 0
    /\ ~device.acOn
    /\ lastSnapshot # null

(***************************************************************************)
(* Properties of the notification messages (SpecToast)                     *)
(***************************************************************************)

\* the messages the failure paths set
FailureToasts ==
    {"Credenciales invalidas",
     "Nombre muy corto.", "Correo invalido.",
     "La contrasena debe tener al menos 6 caracteres.",
     "Las contrasenas no coinciden.", "Debes aceptar los terminos.",
     "Ya existe una cuenta con ese correo.",
     "El setpoint debe estar entre 16C y 30C"}

\* this step is a failure of the mounted form: the login timer of the mounted
\* page finds the credentials wrong, or a registration is refused
FormFailure ==
    \/ /\ lastOp' = "loginCheck"
       /\ \E i \in 1..Len(timers) :
            /\ timers[i].kind = "loginCheck"
            /\ timers[i].live
            /\ TimerFired(i)
            /\ (timers[i].found = null
                  \/ The(timers[i].found).password # timers[i].password)
    \/ /\ lastOp' = "registerSubmit"
       /\ users' = users

\* C21: a message set by a failure path is cleared by the page itself unless
\* another message takes its place first; and a failure leaves the form with
\* its message set and ready for the next submission (not loading).
C21_FailureToastClears ==
    /\ \A m \in FailureToasts : (toast = m) ~> (toast # m)
    /\ [][ FormFailure => (toast' \in FailureToasts /\ ~loading') ]_vars
    /\ [][ (lastOp' = "changeSetpoint" /\ OutOfRange(lastArg'))
           => (toast' \in FailureToasts /\ device' = device /\ view' = IndexPath) ]_vars

\* the login timer has just refused the credentials on the login page
C21_Witness ==
    /\ lastOp = "loginCheck"
    /\ toast = "Credenciales invalidas"
    /\ view = LoginPath
    /\ ~loading
    /\ timers = <<>>

(***************************************************************************)
(* Termination of the redirects (SpecAuthFair)                             *)
(***************************************************************************)

\* the steps by which the router and the layout move the location themselves
RedirectOps == {"beforeLoad", "redirectEffect"}

\* C30: every navigation settles on a path after finitely many redirects,
\* whether the session is stored or not and whether the layout's copy equals
\* the store or is stale: once the guards and the redirect effect are left to
\* themselves, the location is eventually loaded for good.
C30_NavigationSettles ==
    <>[](lastOp \in RedirectOps) => <>[](~navPending)

====
